---- MODULE Spec2Model ----
(***************************************************************************)
(* State-machine model of pipeline.py (PEPITA-tools): main() and the       *)
(* __main__ wrapper.  One run of main is the sequence of steps of process  *)
(* Main; a second invocation on the same cache key (process Other) is      *)
(* modelled up to the end of its cache stage, the only part of main that   *)
(* touches the shared cache file.                                          *)
(***************************************************************************)
EXTENDS Integers, Sequences, FiniteSets, TLC

\* ------------------------------------------------------------------ bounds
MaxConditions == 4
MaxControls == 2

\* The prepend loop of a cocktail that is its own control never ends; the
\* model follows it until the list is longer than any list a finishing loop
\* can build (every control's solutions plus the cocktail's own).
SeriesCap == MaxControls * MaxConditions + MaxConditions + 1

\* ----------------------------------------------------------------- helpers
\* a missing raw measurement (float nan); measurements are non-negative
NaN == -1
\* np.nan as the value of a statistic
Undefined == <<0, 0>>
None == "None"

Main == "main"
Other == "other"
Procs == {Main, Other}

Max(a, b) == IF a >= b THEN a ELSE b

RECURSIVE Concat(_)
Concat(ss) == IF ss = <<>> THEN <<>> ELSE Head(ss) \o Concat(Tail(ss))

Reverse(s) == [i \in 1..Len(s) |-> s[Len(s) + 1 - i]]

RECURSIVE Gcd(_, _)
Gcd(a, b) == IF b = 0 THEN a ELSE Gcd(b, a % b)

\* a number that need not be an integer: <<numerator, denominator>>, reduced
Ratio(n, d) == LET g == Gcd(n, d) IN <<n \div g, d \div g>>

NonMissing(values) == SelectSeq(values, LAMBDA v : v # NaN)

RECURSIVE SumSeq(_)
SumSeq(s) == IF s = <<>> THEN 0 ELSE Head(s) + SumSeq(Tail(s))

RECURSIVE MinSeq(_)
MinSeq(s) ==
    IF Len(s) = 1 THEN s[1]
    ELSE LET m == MinSeq(Tail(s)) IN IF s[1] <= m THEN s[1] ELSE m

RECURSIVE InsertSorted(_, _)
InsertSorted(x, s) ==
    IF s = <<>> THEN <<x>>
    ELSE IF x <= Head(s) THEN <<x>> \o s
    ELSE <<Head(s)>> \o InsertSorted(x, Tail(s))

RECURSIVE SortValues(_)
SortValues(s) == IF s = <<>> THEN <<>> ELSE InsertSorted(Head(s), SortValues(Tail(s)))

\* np.nanmean: the mean of the non-missing values, NaN when there are none
nanmean(values) ==
    LET xs == NonMissing(values)
    IN  IF xs = <<>> THEN Undefined ELSE Ratio(SumSeq(xs), Len(xs))

\* np.nanmedian: the median of the non-missing values, NaN when there are none
nanmedian(values) ==
    LET xs == SortValues(NonMissing(values))
        n == Len(xs)
    IN  IF n = 0 THEN Undefined
        ELSE IF n % 2 = 1 THEN Ratio(xs[(n + 1) \div 2], 1)
        ELSE Ratio(xs[n \div 2] + xs[n \div 2 + 1], 2)

\* np.nanmin of a non-empty array (an empty one raises ValueError): NaN when
\* every value is missing, else the least non-missing value
nanmin(values) ==
    IF NonMissing(values) = <<>> THEN Undefined
    ELSE Ratio(MinSeq(NonMissing(values)), 1)

\* -------------------------------------------- util (condition parsing)
\* Condition labels of the plate, in plate order.
Labels == <<"Control", "A 1mM", "B 1mM", "B 2mM", "A 1mM+B 1mM", "C 1mM+A 1mM">>

\* util.Solution: the doses of a condition label
SolutionDoses(label) ==
    CASE label = "A 1mM+B 1mM" -> <<"A 1mM", "B 1mM">>
      [] label = "C 1mM+A 1mM" -> <<"C 1mM", "A 1mM">>
      [] OTHER -> <<label>>

\* util.Dose(string).drug
DoseDrug(dose) ==
    CASE dose \in {"A", "A 1mM"} -> "A"
      [] dose \in {"B", "B 1mM", "B 2mM"} -> "B"
      [] dose \in {"C", "C 1mM"} -> "C"
      [] OTHER -> dose

DrugRank(drug) ==
    CASE drug = "A" -> 1 [] drug = "B" -> 2 [] drug = "C" -> 3 [] OTHER -> 4

RECURSIVE InsertDrug(_, _)
InsertDrug(d, s) ==
    IF s = <<>> THEN <<d>>
    ELSE IF DrugRank(d) <= DrugRank(Head(s)) THEN <<d>> \o s
    ELSE <<Head(s)>> \o InsertDrug(d, Tail(s))

RECURSIVE SortDrugs(_)
SortDrugs(s) == IF s = <<>> THEN <<>> ELSE InsertDrug(Head(s), SortDrugs(Tail(s)))

\* util.Cocktail: the drugs of a cocktail as an order-normalised tuple
Cocktail(drugs) == SortDrugs(drugs)

\* util.Cocktail(util.Dose(label).drug): the single-drug cocktail of a label
DrugCocktail(label) == Cocktail(<<DoseDrug(label)>>)

\* Solution.get_cocktail()
get_cocktail(label) ==
    LET doses == SolutionDoses(label)
    IN  Cocktail([i \in 1..Len(doses) |-> DoseDrug(doses[i])])

\* ------------------------------------------------------------- Results
\* Raw measurements per label: a plate with every value present, and one
\* with missing values.
Measurements(profile, label) ==
    IF profile = 1
    THEN CASE label = "Control" -> <<10, 12>>
           [] label = "A 1mM" -> <<50, 52>>
           [] label = "B 1mM" -> <<10, 11>>
           [] label = "B 2mM" -> <<30, 6, 9>>
           [] label = "A 1mM+B 1mM" -> <<80, 82>>
           [] OTHER -> <<70>>
    ELSE CASE label = "Control" -> <<NaN, 12>>
           [] label = "A 1mM" -> <<NaN, NaN>>
           [] label = "B 1mM" -> <<NaN>>
           [] label = "B 2mM" -> <<7, NaN, 5>>
           [] label = "A 1mM+B 1mM" -> <<>>
           [] OTHER -> <<NaN>>

Profiles == {1, 2}

\* Results is an insertion-ordered dict: a sequence of entries with distinct
\* labels.
Entry(label, values) == [label |-> label, values |-> values]

ResultsOf(idx, profile) ==
    [i \in 1..Len(idx) |-> Entry(Labels[idx[i]], Measurements(profile, Labels[idx[i]]))]

Ascending(idx) == \A i \in 1..Len(idx) - 1 : idx[i] < idx[i + 1]

IndexSeqs ==
    UNION {{s \in [1..n -> 1..Len(Labels)] : Ascending(s)} : n \in 0..MaxConditions}

ResultsInputs ==
    {ResultsOf(s, p) : s \in IndexSeqs, p \in Profiles}
        \cup {ResultsOf(Reverse(s), 1) : s \in IndexSeqs}

\* results[label]
Lookup(results, label) ==
    LET i == CHOOSE i \in 1..Len(results) : results[i].label = label
    IN  results[i].values

\* ------------------------------------------------------- the cache file
\* The file is a sequence of tokens; json.dump writes "{", one token per
\* entry, "}".
Token(kind, label, values) == [kind |-> kind, label |-> label, values |-> values]

OpenBrace == Token("{", "", <<>>)
CloseBrace == Token("}", "", <<>>)
Hole == Token("hole", "", <<>>)

\* json.dump(results, f)
Dump(results) ==
    <<OpenBrace>>
        \o [i \in 1..Len(results) |-> Token("entry", results[i].label, results[i].values)]
        \o <<CloseBrace>>

\* whether json.load accepts the text
WellFormed(content) ==
    /\ Len(content) >= 2
    /\ content[1] = OpenBrace
    /\ content[Len(content)] = CloseBrace
    /\ \A i \in 2..Len(content) - 1 : content[i].kind = "entry"

\* json.load(f) of a well-formed text: a dict, a repeated key keeping its
\* first position and its last value
Load(content) ==
    LET body == SubSeq(content, 2, Len(content) - 1)
        first(i) == \A j \in 1..i - 1 : body[j].label # body[i].label
        last(l) == CHOOSE j \in 1..Len(body) :
                      /\ body[j].label = l
                      /\ \A k \in j + 1..Len(body) : body[k].label # l
        keep == SelectSeq([i \in 1..Len(body) |-> i], first)
    IN  [i \in 1..Len(keep) |-> Entry(body[keep[i]].label, body[last(body[keep[i]].label)].values)]

\* a write of tokens at a file offset (a gap past the end reads as a hole)
WriteAt(content, pos, toks) ==
    [i \in 1..Max(Len(content), pos + Len(toks)) |->
        IF i > pos /\ i <= pos + Len(toks) THEN toks[i - pos]
        ELSE IF i <= Len(content) THEN content[i]
        ELSE Hole]

\* The buffered writer flushes the text in two blocks: when its buffer
\* fills, and when the file is closed.
FirstBlock(text) == SubSeq(text, 1, (Len(text) + 1) \div 2)
SecondBlock(text) == SubSeq(text, (Len(text) + 1) \div 2 + 1, Len(text))

\* ------------------------------------------------------------------ state
VARIABLES
    chartfile,              \* per invocation: the chartfile argument, or None
    debug,                  \* per invocation: the debug argument
    analysisOutput,         \* per invocation: what analyze.main returns if it returns
    checkerboard,           \* the checkerboard flag
    plate_control,          \* the plate_control labels
    plate_positive_control, \* the plate_positive_control labels
    plate_info,             \* the plate_info argument, or None
    file0,                  \* the cache file as it was before the run
    fileExists,             \* os.path.exists(hashfile)
    fileContent,            \* the content of the cache file
    pc,                     \* per invocation: where it is in main
    results,                \* per invocation: the local results
    analyzeCalls,           \* per invocation: calls of analyze.main
    opened,                 \* per invocation: times it opened the cache file for writing
    wpos,                   \* per invocation: the offset of its open write handle
    closeOrder,             \* the invocations that wrote the cache file, in the order they closed it
    exc,                    \* per invocation: the exception that ended it, or None
    exit_code,              \* per invocation: the process exit code once pc is "exited"
    stdout,                 \* lines printed by Main
    drug_conditions,        \* ordered multimap: entries [cocktail, conditions]
    control_drugs,          \* the cocktails of plate_control
    positive_control_value,
    models,                 \* ordered dict of Models, as entries in insertion order
    ci,                     \* position of the cocktail loop in drug_conditions
    ki,                     \* position of the loop over control_drugs
    si,                     \* position of the iterator over the control's solutions
    models_combo,           \* the combination Models
    mi,                     \* position of the diamond loop in models_combo
    total_max_x,
    total_max_y,
    plot_filename,          \* the local of main, <<>> while unbound
    calls,                  \* calls made to dose_response's synergy functions
    saved                   \* plt.savefig calls: [file, xlim, ylim]

cacheVars == <<file0, fileExists, fileContent, pc, results, analyzeCalls, opened, wpos,
               closeOrder, exc, exit_code, stdout>>
inputVars == <<chartfile, debug, analysisOutput, checkerboard, plate_control,
               plate_positive_control, plate_info>>
plateVars == <<drug_conditions, control_drugs, positive_control_value, models, ci, ki, si,
               models_combo, mi, total_max_x, total_max_y, plot_filename, calls, saved>>
vars == <<inputVars, cacheVars, plateVars>>

\* ----------------------------------------------------------------- inputs
Absent == [exists |-> FALSE, content |-> <<>>]
Cached(r) == [exists |-> TRUE, content |-> Dump(r)]

\* what an earlier run left in the cache, or a later analysis would return,
\* when it is not the Results of this run
StaleResults == ResultsOf(<<1, 3>>, 1)

Chartfiles == {None, "chart.png"}
DebugLevels == {0, 1}
ControlLabels == {"Control", "B"}
PlateControls == UNION {[1..n -> ControlLabels] : n \in 0..MaxControls}
PositiveControls == {<<>>, <<"A 1mM">>, <<"C 1mM">>}
PlateInfos == {None, "plate1"}

\* Where the Results of the run come from: the analysis with no cache file,
\* the analysis with a stale cache file, or the cache file.
Sources(r) ==
    { [analysis |-> r, file |-> Absent],
      [analysis |-> r, file |-> Cached(StaleResults)],
      [analysis |-> StaleResults, file |-> Cached(r)] }

PlateInit ==
    /\ drug_conditions = <<>>
    /\ control_drugs = <<>>
    /\ positive_control_value = Undefined
    /\ models = <<>>
    /\ ci = 0
    /\ ki = 0
    /\ si = 0
    /\ models_combo = <<>>
    /\ mi = 0
    /\ total_max_x = 0
    /\ total_max_y = 0
    /\ plot_filename = <<>>
    /\ calls = <<>>
    /\ saved = <<>>

RunInit(active) ==
    /\ pc = [p \in Procs |-> IF p \in active THEN "start" ELSE "off"]
    /\ results = [p \in Procs |-> <<>>]
    /\ analyzeCalls = [p \in Procs |-> 0]
    /\ opened = [p \in Procs |-> 0]
    /\ wpos = [p \in Procs |-> 0]
    /\ closeOrder = <<>>
    /\ exc = [p \in Procs |-> None]
    /\ exit_code = [p \in Procs |-> 0]
    /\ stdout = <<>>
    /\ fileExists = file0.exists
    /\ fileContent = file0.content

\* the Results over which every cache setting is tried
CacheCase(r) == Len(r) = 2 /\ r[1].label = "A 1mM"

\* One run of main over Results drawn from a set.  The cache stage never looks
\* inside Results and the plate stage never looks at chartfile or debug: the
\* inputs are every cache setting over a few Results, and every Results over
\* a cache hit and a miss.
RunInputs(resultsSet) ==
    /\ \E r \in resultsSet, cf \in Chartfiles, d \in DebugLevels : \E src \in Sources(r) :
          /\ \/ cf = None /\ d = 0 /\ src.file # Cached(StaleResults)
             \/ CacheCase(r)
          /\ chartfile = [p \in Procs |-> cf]
          /\ debug = [p \in Procs |-> d]
          /\ analysisOutput = [p \in Procs |-> src.analysis]
          /\ file0 = src.file
    /\ checkerboard \in BOOLEAN
    /\ plate_control \in PlateControls
    /\ plate_positive_control \in PositiveControls
    /\ plate_info \in PlateInfos
    /\ RunInit({Main})
    /\ PlateInit

Init == RunInputs(ResultsInputs)

\* ------------------------------------------------- exits (__main__ wrapper)
\* An exception leaves main (exc names it, and the line of main that raised
\* it); the wrapper catches analyze.UserError, prints "Error: <message>" and
\* exits 1; any other exception ends the process with a traceback and exit
\* code 1.
Raise(p, e) ==
    /\ pc' = [pc EXCEPT ![p] = "exited"]
    /\ exc' = [exc EXCEPT ![p] = e]
    /\ exit_code' = [exit_code EXCEPT ![p] = 1]
    /\ stdout' = IF e = "UserError" /\ p = Main
                 THEN Append(stdout, "Error: <message>") ELSE stdout

\* main returns: the process exits 0
Return(p) ==
    /\ pc' = [pc EXCEPT ![p] = "exited"]
    /\ exit_code' = [exit_code EXCEPT ![p] = 0]
    /\ UNCHANGED <<exc, stdout>>

\* ------------------------------------------------------------ cache stage
\* line 19 without the debug test
UseCacheIgnoringDebug(p) == chartfile[p] = None /\ fileExists

\* the condition of line 19
UseCache(p) == chartfile[p] = None /\ debug[p] = 0 /\ fileExists

\* line 19: the test that selects the cached or the recomputed Results
CheckCache(p) ==
    /\ pc[p] = "start"
    /\ pc' = [pc EXCEPT ![p] = IF UseCache(p) THEN "read" ELSE "analyze"]
    /\ UNCHANGED <<inputVars, plateVars, file0, fileExists, fileContent, results,
                   analyzeCalls, opened, wpos, closeOrder, exc, exit_code, stdout>>

\* lines 20-21: open the cache file and json.load it
ReadCache(p) ==
    /\ pc[p] = "read"
    /\ IF WellFormed(fileContent)
       THEN /\ results' = [results EXCEPT ![p] = Load(fileContent)]
            /\ pc' = [pc EXCEPT ![p] = "cached"]
            /\ UNCHANGED <<exc, exit_code, stdout>>
       ELSE /\ Raise(p, "JSONDecodeError")
            /\ UNCHANGED results
    /\ UNCHANGED <<inputVars, plateVars, file0, fileExists, fileContent,
                   analyzeCalls, opened, wpos, closeOrder>>

\* lines 23-24: analyze.main returns Results
AnalyzeReturns(p) ==
    /\ pc[p] = "analyze"
    /\ analyzeCalls' = [analyzeCalls EXCEPT ![p] = @ + 1]
    /\ results' = [results EXCEPT ![p] = analysisOutput[p]]
    /\ pc' = [pc EXCEPT ![p] = "open"]
    /\ UNCHANGED <<inputVars, plateVars, file0, fileExists, fileContent, opened, wpos,
                   closeOrder, exc, exit_code, stdout>>

\* analyze.main called inside the with block: the file is opened first
AnalyzeRaisesInsideWith(p) ==
    /\ pc[p] = "analyze"
    /\ analyzeCalls' = [analyzeCalls EXCEPT ![p] = @ + 1]
    /\ fileExists' = TRUE
    /\ fileContent' = <<>>
    /\ Raise(p, "UserError")
    /\ UNCHANGED <<inputVars, plateVars, file0, results, opened, wpos, closeOrder>>

\* lines 23-24: analyze.main raises analyze.UserError
AnalyzeRaises(p) ==
    /\ pc[p] = "analyze"
    /\ analyzeCalls' = [analyzeCalls EXCEPT ![p] = @ + 1]
    /\ Raise(p, "UserError")
    /\ UNCHANGED <<inputVars, plateVars, file0, fileExists, fileContent, results,
                   opened, wpos, closeOrder>>

\* line 25: open(hashfile, 'w') creates or truncates the file
OpenCache(p) ==
    /\ pc[p] = "open"
    /\ fileExists' = TRUE
    /\ fileContent' = <<>>
    /\ opened' = [opened EXCEPT ![p] = @ + 1]
    /\ wpos' = [wpos EXCEPT ![p] = 0]
    /\ pc' = [pc EXCEPT ![p] = "dump"]
    /\ UNCHANGED closeOrder
    /\ UNCHANGED <<inputVars, plateVars, file0, results, analyzeCalls, exc, exit_code,
                   stdout>>

\* line 26: json.dump fills the write buffer, which is flushed to the file
FlushCache(p) ==
    /\ pc[p] = "dump"
    /\ fileContent' = WriteAt(fileContent, 0, FirstBlock(Dump(results[p])))
    /\ wpos' = [wpos EXCEPT ![p] = Len(FirstBlock(Dump(results[p])))]
    /\ pc' = [pc EXCEPT ![p] = "close"]
    /\ UNCHANGED closeOrder
    /\ UNCHANGED <<inputVars, plateVars, file0, fileExists, results, analyzeCalls,
                   opened, closeOrder, exc, exit_code, stdout>>

\* lines 25-26: leaving the with block flushes the rest and closes the file
CloseCache(p) ==
    /\ pc[p] = "close"
    /\ fileContent' = WriteAt(fileContent, wpos[p], SecondBlock(Dump(results[p])))
    /\ wpos' = [wpos EXCEPT ![p] = Len(Dump(results[p]))]
    /\ closeOrder' = Append(closeOrder, p)
    /\ pc' = [pc EXCEPT ![p] = "cached"]
    /\ UNCHANGED <<inputVars, plateVars, file0, fileExists, results, analyzeCalls,
                   opened, exc, exit_code, stdout>>

CacheStage(p) ==
    \/ CheckCache(p)
    \/ ReadCache(p)
    \/ AnalyzeReturns(p)
    \/ AnalyzeRaises(p)
    \/ OpenCache(p)
    \/ FlushCache(p)
    \/ CloseCache(p)

\* ------------------------------------------------------------ plate stage
HasKey(dict, cocktail) == \E i \in 1..Len(dict) : dict[i].cocktail = cocktail

KeyIndex(dict, cocktail) == CHOOSE i \in 1..Len(dict) : dict[i].cocktail = cocktail

\* util.put_multimap: append to the list under the key, creating it if needed
put_multimap(dict, cocktail, solution) ==
    IF HasKey(dict, cocktail)
    THEN [dict EXCEPT ![KeyIndex(dict, cocktail)].conditions = Append(@, solution)]
    ELSE Append(dict, [cocktail |-> cocktail, conditions |-> <<solution>>])

\* _parse_results: a Solution is identified by its label (solution.string)
RECURSIVE ParseFrom(_, _)
ParseFrom(dict, rest) ==
    IF rest = <<>> THEN dict
    ELSE ParseFrom(put_multimap(dict, get_cocktail(Head(rest).label), Head(rest).label),
                   Tail(rest))

parse_results(r) == ParseFrom(<<>>, r)

\* lines 28-31
Parse ==
    /\ pc[Main] = "cached"
    /\ drug_conditions' = parse_results(results[Main])
    /\ control_drugs' = [i \in 1..Len(plate_control) |-> DrugCocktail(plate_control[i])]
    /\ models' = <<>>
    /\ pc' = [pc EXCEPT ![Main] = "positive"]
    /\ UNCHANGED <<inputVars, file0, fileExists, fileContent, results, analyzeCalls,
                   opened, wpos, closeOrder, exc, exit_code, stdout, positive_control_value, ci, ki,
                   si, models_combo, mi, total_max_x, total_max_y, plot_filename, calls,
                   saved>>

\* line 35-36
positive_control_drugs ==
    [i \in 1..Len(plate_positive_control) |-> DrugCocktail(plate_positive_control[i])]

\* lines 37-38, once every drug_conditions[drug] is known to exist
positive_control_solutions ==
    Concat([i \in 1..Len(positive_control_drugs) |->
              drug_conditions[KeyIndex(drug_conditions, positive_control_drugs[i])].conditions])

\* lines 39-40
positive_control_scores ==
    Concat([i \in 1..Len(positive_control_solutions) |->
              Lookup(results[Main], positive_control_solutions[i])])

\* line 49: every value of every condition
AllValues(r) == Concat([i \in 1..Len(r) |-> r[i].values])

NoPositiveControlWarning ==
    "WARNING: No positive control included. Using minimum calculated value as positive control"

\* lines 35-49
PositiveControl ==
    /\ pc[Main] = "positive"
    /\ IF \E i \in 1..Len(positive_control_drugs) :
             ~HasKey(drug_conditions, positive_control_drugs[i])
       THEN /\ Raise(Main, "KeyError:38")
            /\ UNCHANGED <<positive_control_value, ci>>
       ELSE IF nanmean(positive_control_scores) # Undefined
       THEN /\ positive_control_value' = nanmean(positive_control_scores)
            /\ ci' = 1
            /\ pc' = [pc EXCEPT ![Main] = "cocktail"]
            /\ UNCHANGED <<exc, exit_code, stdout>>
       ELSE IF AllValues(results[Main]) = <<>>
       THEN /\ pc' = [pc EXCEPT ![Main] = "exited"]
            /\ exc' = [exc EXCEPT ![Main] = "ValueError:48"]
            /\ exit_code' = [exit_code EXCEPT ![Main] = 1]
            /\ stdout' = Append(stdout, NoPositiveControlWarning)
            /\ UNCHANGED <<positive_control_value, ci>>
       ELSE /\ stdout' = Append(stdout, NoPositiveControlWarning)
            /\ positive_control_value' = nanmin(AllValues(results[Main]))
            /\ ci' = 1
            /\ pc' = [pc EXCEPT ![Main] = "cocktail"]
            /\ UNCHANGED <<exc, exit_code>>
    /\ UNCHANGED <<inputVars, file0, fileExists, fileContent, results, analyzeCalls,
                   opened, wpos, closeOrder, drug_conditions, control_drugs, models, ki, si,
                   models_combo, mi, total_max_x, total_max_y, plot_filename, calls,
                   saved>>

\* lines 53-57: the head of the cocktail loop
NextCocktail ==
    /\ pc[Main] = "cocktail"
    /\ IF ci > Len(drug_conditions)
       THEN /\ pc' = [pc EXCEPT ![Main] = "report"]
            /\ UNCHANGED <<ci, ki, si>>
       ELSE IF drug_conditions[ci].cocktail = <<"Control">>
       THEN /\ ci' = ci + 1
            /\ UNCHANGED <<pc, ki, si>>
       ELSE /\ ki' = 1
            /\ si' = 1
            /\ pc' = [pc EXCEPT ![Main] = "prepend"]
            /\ UNCHANGED ci
    /\ UNCHANGED <<inputVars, file0, fileExists, fileContent, results, analyzeCalls,
                   opened, wpos, closeOrder, exc, exit_code, stdout, drug_conditions, control_drugs,
                   positive_control_value, models, models_combo, mi, total_max_x,
                   total_max_y, plot_filename, calls, saved>>

\* list.append(x) in place of list.insert(0, x)
InsertBack(list, x) == list \o <<x>>

\* list.insert(0, x)
InsertFront(list, x) == <<x>> \o list

\* lines 58-60: one step of the loops over control_drugs and over the
\* control's solutions.  The iterated list is looked up in drug_conditions at
\* every step, so an insertion into that same list is seen by the iterator.
Prepend ==
    /\ pc[Main] = "prepend"
    /\ IF ki > Len(control_drugs)
       THEN /\ pc' = [pc EXCEPT ![Main] = "model"]
            /\ UNCHANGED <<ki, si, drug_conditions, exc, exit_code, stdout>>
       ELSE IF ~HasKey(drug_conditions, control_drugs[ki])
       THEN /\ Raise(Main, "KeyError:59")
            /\ UNCHANGED <<ki, si, drug_conditions>>
       ELSE LET control == drug_conditions[KeyIndex(drug_conditions, control_drugs[ki])].conditions
            IN  IF si > Len(control)
                THEN /\ ki' = ki + 1
                     /\ si' = 1
                     /\ UNCHANGED <<pc, drug_conditions, exc, exit_code, stdout>>
                ELSE /\ Len(drug_conditions[ci].conditions) < SeriesCap
                     /\ drug_conditions' =
                          [drug_conditions EXCEPT ![ci].conditions = InsertFront(@, control[si])]
                     /\ si' = si + 1
                     /\ UNCHANGED <<pc, ki, exc, exit_code, stdout>>
    /\ UNCHANGED <<inputVars, file0, fileExists, fileContent, results, analyzeCalls,
                   opened, wpos, closeOrder, control_drugs, positive_control_value, models, ci,
                   models_combo, mi, total_max_x, total_max_y, plot_filename, calls,
                   saved>>

\* lines 61-66: one summary score per solution of the series
SummaryScores(conditions) ==
    [i \in 1..Len(conditions) |-> nanmedian(Lookup(results[Main], conditions[i]))]

\* line 70: the name of the chart
ChartName(cocktail) == IF plate_info # None THEN <<plate_info>> \o cocktail ELSE <<>>

\* dose_response.Model(conditions, summary_scores, cocktail, E_max=...) and
\* its chart; Model.combo marks a cocktail of several drugs
Model(conditions, summary_scores, cocktail, E_max) ==
    [cocktail |-> cocktail, conditions |-> conditions, summary_scores |-> summary_scores,
     E_max |-> E_max, combo |-> Len(cocktail) > 1, chart |-> ChartName(cocktail)]

\* lines 61-71
BuildModel ==
    /\ pc[Main] = "model"
    /\ models' = Append(models,
                        Model(drug_conditions[ci].conditions,
                              SummaryScores(drug_conditions[ci].conditions),
                              drug_conditions[ci].cocktail, positive_control_value))
    /\ ci' = ci + 1
    /\ pc' = [pc EXCEPT ![Main] = "cocktail"]
    /\ UNCHANGED <<inputVars, file0, fileExists, fileContent, results, analyzeCalls,
                   opened, wpos, closeOrder, exc, exit_code, stdout, drug_conditions, control_drugs,
                   positive_control_value, ki, si, models_combo, mi, total_max_x,
                   total_max_y, plot_filename, calls, saved>>

\* ---------------------------------------------------------- combinations
HasModel(cocktail) == HasKey(models, cocktail)

ModelOf(cocktail) == models[KeyIndex(models, cocktail)]

\* util.Cocktail(model_combo.cocktail.drugs[n])
Subcocktail(model_combo, n) == Cocktail(<<model_combo.cocktail[n]>>)

Cocktails(ms) == [i \in 1..Len(ms) |-> ms[i].cocktail]

\* a call of one of dose_response's synergy functions: the Models it is
\* given, by cocktail, the file_name_context, and the extents it returned
\* (analyze_diamond only)
Call(fn, model_a, model_b, combos, context, max_x, max_y) ==
    [fn |-> fn, a |-> model_a.cocktail, b |-> model_b.cocktail,
     combos |-> Cocktails(combos), context |-> context, max_x |-> max_x, max_y |-> max_y]

\* lines 75-94: the EC values are printed (no state of the run depends on
\* them), the combination Models are selected and the mode is entered
Report ==
    /\ pc[Main] = "report"
    /\ models_combo' = SelectSeq(models, LAMBDA m : m.combo)
    /\ IF ~checkerboard
       THEN /\ total_max_x' = 1
            /\ total_max_y' = 1
            /\ mi' = 1
            /\ pc' = [pc EXCEPT ![Main] = "diamond"]
       ELSE /\ pc' = [pc EXCEPT ![Main] = "checkerboard"]
            /\ UNCHANGED <<total_max_x, total_max_y, mi>>
    /\ UNCHANGED <<inputVars, file0, fileExists, fileContent, results, analyzeCalls,
                   opened, wpos, closeOrder, exc, exit_code, stdout, drug_conditions, control_drugs,
                   positive_control_value, models, ci, ki, si, plot_filename, calls,
                   saved>>

\* what analyze_diamond may return as max_x and as max_y
Extents == {0, 3, 5}

\* the plot file analyze_diamond names for a combination
PlotFile(model_combo) == <<"diamond">> \o model_combo.cocktail

\* lines 98-99: the condition under which a combination is skipped
SkipCombo(model_combo) == ~HasModel(Subcocktail(model_combo, 1))

\* lines 96-99: a combination is skipped
DiamondSkip ==
    /\ pc[Main] = "diamond"
    /\ mi <= Len(models_combo)
    /\ SkipCombo(models_combo[mi])
    /\ mi' = mi + 1
    /\ UNCHANGED <<inputVars, cacheVars, drug_conditions, control_drugs,
                   positive_control_value, models, ci, ki, si, models_combo, total_max_x,
                   total_max_y, plot_filename, calls, saved>>

\* lines 100-102: models[subcocktail_b] raises KeyError
DiamondMissing ==
    /\ pc[Main] = "diamond"
    /\ mi <= Len(models_combo)
    /\ ~SkipCombo(models_combo[mi])
    /\ ~HasModel(Subcocktail(models_combo[mi], 2))
    /\ Raise(Main, "KeyError:102")
    /\ UNCHANGED <<inputVars, plateVars, file0, fileExists, fileContent, results,
                   analyzeCalls, opened, wpos, closeOrder>>

\* lines 96-108: a combination is analysed and charted
DiamondPair ==
    /\ pc[Main] = "diamond"
    /\ mi <= Len(models_combo)
    /\ ~SkipCombo(models_combo[mi])
    /\ HasModel(Subcocktail(models_combo[mi], 2))
    /\ \E max_x \in Extents, max_y \in Extents :
          LET model_combo == models_combo[mi]
              model_a == ModelOf(Subcocktail(model_combo, 1))
              model_b == ModelOf(Subcocktail(model_combo, 2))
          IN  /\ calls' = calls
                    \o <<Call("analyze_diamond", model_a, model_b, <<model_combo>>, None,
                              max_x, max_y),
                         Call("chart_diamond", model_a, model_b, <<model_combo>>, None,
                              0, 0)>>
              /\ plot_filename' = PlotFile(model_combo)
              /\ total_max_x' = Max(total_max_x, max_x)
              /\ total_max_y' = Max(total_max_y, max_y)
    /\ mi' = mi + 1
    /\ UNCHANGED <<inputVars, cacheVars, drug_conditions, control_drugs,
                   positive_control_value, models, ci, ki, si, models_combo, saved>>

\* line 110: the condition under which the shared figure is saved
SaveFigure == models_combo # <<>>

\* lines 110-115: after the loop
DiamondSave ==
    /\ pc[Main] = "diamond"
    /\ mi > Len(models_combo)
    /\ IF ~SaveFigure
       THEN /\ Return(Main)
            /\ UNCHANGED saved
       ELSE IF plot_filename = <<>>
       THEN /\ Raise(Main, "UnboundLocalError:113")
            /\ UNCHANGED saved
       ELSE /\ saved' = Append(saved, [file |-> plot_filename, xlim |-> total_max_x,
                                       ylim |-> total_max_y])
            /\ Return(Main)
    /\ UNCHANGED <<inputVars, file0, fileExists, fileContent, results, analyzeCalls,
                   opened, wpos, closeOrder, drug_conditions, control_drugs, positive_control_value,
                   models, ci, ki, si, models_combo, mi, total_max_x, total_max_y,
                   plot_filename, calls>>

\* only the first combination handed on
CheckerboardFirstCombo == <<models_combo[1]>>

\* the combination Models handed to the checkerboard functions
CheckerboardCombos == models_combo

\* lines 117-123
Checkerboard ==
    /\ pc[Main] = "checkerboard"
    /\ IF models_combo = <<>>
       THEN /\ Raise(Main, "IndexError:117")
            /\ UNCHANGED calls
       ELSE IF ~HasModel(Subcocktail(models_combo[1], 1))
       THEN /\ Raise(Main, "KeyError:118")
            /\ UNCHANGED calls
       ELSE IF ~HasModel(Subcocktail(models_combo[1], 2))
       THEN /\ Raise(Main, "KeyError:119")
            /\ UNCHANGED calls
       ELSE LET model_a == ModelOf(Subcocktail(models_combo[1], 1))
                model_b == ModelOf(Subcocktail(models_combo[1], 2))
            IN  /\ calls' = calls
                      \o <<Call("analyze_checkerboard", model_a, model_b,
                                CheckerboardCombos, plate_info, 0, 0),
                           Call("chart_checkerboard", model_a, model_b,
                                CheckerboardCombos, plate_info, 0, 0)>>
                /\ Return(Main)
    /\ UNCHANGED <<inputVars, file0, fileExists, fileContent, results, analyzeCalls,
                   opened, wpos, closeOrder, drug_conditions, control_drugs, positive_control_value,
                   models, ci, ki, si, models_combo, mi, total_max_x, total_max_y,
                   plot_filename, saved>>

PlateStage ==
    \/ Parse
    \/ PositiveControl
    \/ NextCocktail
    \/ Prepend
    \/ BuildModel
    \/ Report
    \/ DiamondSkip
    \/ DiamondMissing
    \/ DiamondPair
    \/ DiamondSave
    \/ Checkerboard

Next == (\E p \in Procs : CacheStage(p)) \/ PlateStage

Spec == Init /\ [][Next]_vars

\* Plates of two conditions and a combination or a second dose, every value
\* present
FairResults == {ResultsOf(s, 1) : s \in {t \in IndexSeqs : Len(t) = 3}}

FairInit == RunInputs(FairResults)

\* Python runs the one thread of an invocation until it returns or raises: a
\* step that can be taken is taken.
FairSpec == FairInit /\ [][Next]_vars /\ WF_vars(Next)

\* ------------------------------------- two invocations on one cache key
\* Results of two entries, as two analysis runs may return them
RaceResults == {ResultsOf(<<1, 2>>, 1), ResultsOf(<<2, 3>>, 2)}

\* Both invocations run their cache stage on the same file, in any
\* interleaving of their file operations; chartfile and debug are not part of
\* the cache key and may differ.
RaceInit ==
    /\ chartfile \in [Procs -> Chartfiles]
    /\ debug \in [Procs -> DebugLevels]
    /\ analysisOutput \in [Procs -> RaceResults]
    /\ file0 \in {Absent} \cup {Cached(r) : r \in RaceResults}
    /\ checkerboard = FALSE
    /\ plate_control = <<"Control">>
    /\ plate_positive_control = <<>>
    /\ plate_info = None
    /\ RunInit(Procs)
    /\ PlateInit

RaceNext == \E p \in Procs : CacheStage(p)

RaceSpec == RaceInit /\ [][RaceNext]_vars

\* ================================================================ claims
CacheStates == {"start", "read", "analyze", "open", "dump", "close"}

\* the run of Main has left the cache stage (lines 19-26)
PastCache == pc[Main] \notin CacheStates \cup {"off"}

\* a chartfile override is given, or debug is non-zero, or no cache file
\* existed when the run started
Recompute == chartfile[Main] # None \/ debug[Main] # 0 \/ ~file0.exists

\* C1: analyze.main is invoked, and the cache file then overwritten with its
\* Results, if and only if a chartfile is given, or debug is non-zero, or no
\* cache file exists; otherwise analyze.main is never invoked, the file is
\* not written and Results is the content of the existing file.  (A run whose
\* analysis raises is the case of C2.)
C1_CacheDecision ==
    /\ analyzeCalls[Main] > 0 => Recompute
    /\ opened[Main] > 0 => analyzeCalls[Main] = 1
    /\ PastCache /\ exc[Main] # "UserError" =>
          IF Recompute
          THEN /\ analyzeCalls[Main] = 1
               /\ opened[Main] = 1
               /\ results[Main] = analysisOutput[Main]
               /\ fileExists
               /\ WellFormed(fileContent)
               /\ Load(fileContent) = results[Main]
          ELSE /\ analyzeCalls[Main] = 0
               /\ opened[Main] = 0
               /\ fileExists
               /\ fileContent = file0.content
               /\ results[Main] = Load(file0.content)
    /\ exc[Main] = "UserError" => Recompute /\ analyzeCalls[Main] = 1

\* a stale cache file exists, debug is set, and the file now holds the new Results
C1_Witness ==
    /\ pc[Main] = "cached"
    /\ file0.exists
    /\ debug[Main] # 0
    /\ chartfile[Main] = None
    /\ fileContent # file0.content
    /\ Load(fileContent) = analysisOutput[Main]

\* C2: when analyze.main raises analyze.UserError, it was called exactly once,
\* the cache file is as it was before the run, no Model was built, no chart or
\* synergy call was made, and the process prints "Error: <message>" and exits 1.
C2_UserErrorPropagates ==
    exc[Main] = "UserError" =>
        /\ analyzeCalls[Main] = 1
        /\ fileExists = file0.exists
        /\ fileContent = file0.content
        /\ opened[Main] = 0
        /\ models = <<>>
        /\ calls = <<>>
        /\ saved = <<>>
        /\ stdout = <<"Error: <message>">>
        /\ pc[Main] = "exited"
        /\ exit_code[Main] = 1

\* the analysis raised although a cache file exists (a chartfile was given)
C2_Witness ==
    /\ exc[Main] = "UserError"
    /\ file0.exists
    /\ chartfile[Main] # None

\* ------------------------------------------------------------------ C3
\* the Solutions of a cocktail, in the order of Results
OriginalSolutions(cocktail) ==
    LET r == results[Main]
        hits == SelectSeq([i \in 1..Len(r) |-> i],
                          LAMBDA i : get_cocktail(r[i].label) = cocktail)
    IN  [k \in 1..Len(hits) |-> r[hits[k]].label]

\* every measurement of every Solution of the positive-control drugs
PositiveMeasurements ==
    Concat([i \in 1..Len(plate_positive_control) |->
        LET own == OriginalSolutions(DrugCocktail(plate_positive_control[i]))
        IN  Concat([k \in 1..Len(own) |-> Lookup(results[Main], own[k])])])

NormalisationActed ==
    /\ PastCache
    /\ pc[Main] \notin {"cached", "positive"}
    /\ exc[Main] \notin {"UserError", "JSONDecodeError"}

Warnings == SelectSeq(stdout, LAMBDA line : line = NoPositiveControlWarning)

\* C3: with zero positive-control measurements (and some measurement in
\* Results), the normalisation step does not raise, PositiveControlValue is the
\* minimum of all non-missing measurements, and the warning is printed once.
C3_FallbackMinimum ==
    (/\ NormalisationActed
     /\ NonMissing(PositiveMeasurements) = <<>>
     /\ NonMissing(AllValues(results[Main])) # <<>>)
    => /\ exc[Main] \notin {"KeyError:38", "ValueError:48"}
       /\ positive_control_value = Ratio(MinSeq(NonMissing(AllValues(results[Main]))), 1)
       /\ Len(Warnings) = 1

\* ------------------------------------------------------------------ C4
DiamondFns == {"analyze_diamond", "chart_diamond"}
CheckerboardFns == {"analyze_checkerboard", "chart_checkerboard"}

\* a sub-Cocktail of the combination has no Model
Unpaired(cocktail) ==
    \/ ~HasModel(Cocktail(<<cocktail[1]>>))
    \/ ~HasModel(Cocktail(<<cocktail[2]>>))

\* C4: in diamond mode a combination with a sub-Cocktail that has no Model is
\* skipped: no diamond call names it and no error is raised for it.
C4_SkipsUnpairedCombo ==
    ~checkerboard =>
        /\ \A i \in 1..Len(calls) : ~Unpaired(calls[i].combos[1])
        /\ exc[Main] # "KeyError:102"

\* ------------------------------------------------------------------ C5
Processed == SelectSeq(calls, LAMBDA c : c.fn = "analyze_diamond")

RECURSIVE MaxOver(_, _)
MaxOver(floor, xs) == IF xs = <<>> THEN floor ELSE MaxOver(Max(floor, Head(xs)), Tail(xs))

\* the diamond loop has run through every combination
AfterDiamondLoop ==
    /\ ~checkerboard
    /\ pc[Main] = "exited"
    /\ exc[Main] \in {None, "UnboundLocalError:113"}

\* C5: after the diamond loop the figure is saved iff some combination was
\* processed; it is saved with limits max(1, every max_x) and max(1, every
\* max_y) under the file name of the last processed combination; with none
\* processed nothing is saved and no error is raised.
C5_SavedIffProcessed ==
    AfterDiamondLoop =>
        /\ exc[Main] = None
        /\ saved # <<>> <=> Processed # <<>>
        /\ saved # <<>> =>
              /\ Len(saved) = 1
              /\ saved[1].xlim = MaxOver(1, [i \in 1..Len(Processed) |-> Processed[i].max_x])
              /\ saved[1].ylim = MaxOver(1, [i \in 1..Len(Processed) |-> Processed[i].max_y])
              /\ saved[1].file = <<"diamond">> \o Processed[Len(Processed)].combos[1]

\* ------------------------------------------------------------------ C6
\* the cocktails of the combination Models, in the order of models
ComboCocktails == SelectSeq(Cocktails(models), LAMBDA c : Len(c) > 1)

CheckerboardCall(fn) ==
    [fn |-> fn, a |-> <<ComboCocktails[1][1]>>, b |-> <<ComboCocktails[1][2]>>,
     combos |-> ComboCocktails, context |-> plate_info, max_x |-> 0, max_y |-> 0]

CheckerboardErrors == {"IndexError:117", "KeyError:118", "KeyError:119"}

\* the first combination exists and both of its single drugs have a Model
FirstComboPaired == ComboCocktails # <<>> /\ ~Unpaired(ComboCocktails[1])

\* C6 as stated: with the checkerboard flag set, a run that comes to the
\* combination stage calls analyze_checkerboard and chart_checkerboard once each.
C6_AlwaysDispatchedOnce ==
    (checkerboard /\ pc[Main] = "exited" /\ exc[Main] \in CheckerboardErrors \cup {None})
    => /\ Len(calls) = 2
       /\ calls = <<CheckerboardCall("analyze_checkerboard"),
                    CheckerboardCall("chart_checkerboard")>>

\* C6 (amended): the modes are exclusive; with the flag set, a run that comes
\* to the combination stage calls analyze_checkerboard then chart_checkerboard
\* once each, with the single-drug Models of the first combination, every
\* combination Model and plate_info, provided a combination exists and both
\* single drugs of the first one have a Model; otherwise it raises IndexError
\* or KeyError and calls neither.
C6_CheckerboardDispatch ==
    /\ \A i \in 1..Len(calls) :
          calls[i].fn \in (IF checkerboard THEN CheckerboardFns ELSE DiamondFns)
    /\ checkerboard /\ pc[Main] # "exited" => calls = <<>>
    /\ (checkerboard /\ pc[Main] = "exited" /\ exc[Main] \in CheckerboardErrors \cup {None})
       => IF FirstComboPaired
          THEN /\ exc[Main] = None
               /\ calls = <<CheckerboardCall("analyze_checkerboard"),
                            CheckerboardCall("chart_checkerboard")>>
          ELSE /\ exc[Main] = (IF ComboCocktails = <<>> THEN "IndexError:117"
                               ELSE IF ~HasModel(<<ComboCocktails[1][1]>>)
                               THEN "KeyError:118" ELSE "KeyError:119")
               /\ calls = <<>>

\* a checkerboard run over two combinations, with a plate_info
C6_Witness ==
    /\ checkerboard
    /\ pc[Main] = "exited"
    /\ exc[Main] = None
    /\ Len(calls) = 2
    /\ Len(calls[1].combos) = 2
    /\ plate_info # None

\* ------------------------------------------------------------------ C7
\* the Results of the analysis runs that have finished or finish in this run
FinishedResults ==
    {analysisOutput[p] : p \in Procs}
        \cup (IF file0.exists THEN {Load(file0.content)} ELSE {})

\* C7: whatever the interleaving of two invocations on one cache key, a cache
\* file that is read holds the complete Results of one finished analysis run,
\* and after both have finished it holds the Results of the last writer.
C7_AllOrNothing ==
    /\ \A p \in Procs : exc[p] # "JSONDecodeError"
    /\ \A p \in Procs :
          pc[p] = "cached" /\ analyzeCalls[p] = 0 => results[p] \in FinishedResults
    /\ ((\A p \in Procs : pc[p] \in {"cached", "exited"}) /\ closeOrder # <<>>)
       => fileContent = Dump(results[closeOrder[Len(closeOrder)]])

\* ------------------------------------------------------------------ C8
\* the Solutions of the control drugs, in the order the controls are given
ControlSolutions ==
    Concat([i \in 1..Len(plate_control) |->
              OriginalSolutions(DrugCocktail(plate_control[i]))])

Aligned(m) ==
    /\ Len(m.summary_scores) = Len(m.conditions)
    /\ \A i \in 1..Len(m.conditions) :
          m.summary_scores[i] = nanmedian(Lookup(results[Main], m.conditions[i]))

\* C8 as stated: the DoseSeries of a Model is the control Solutions in the
\* order given, then the Cocktail's own Solutions, with aligned SummaryScores.
C8_ControlsInOrder ==
    \A i \in 1..Len(models) :
        /\ models[i].conditions = ControlSolutions \o OriginalSolutions(models[i].cocktail)
        /\ Aligned(models[i])

\* C8 (amended): the DoseSeries of a Model is the control Solutions in the
\* reverse of the order given (the last control drug first, each control's
\* Solutions last to first), then the Cocktail's own Solutions in their
\* original order, with aligned SummaryScores.
C8_ControlsReversed ==
    \A i \in 1..Len(models) :
        /\ models[i].conditions =
              Reverse(ControlSolutions) \o OriginalSolutions(models[i].cocktail)
        /\ Aligned(models[i])

\* a Model built over two different control Solutions
C8_Witness ==
    /\ models # <<>>
    /\ Len(ControlSolutions) >= 2
    /\ ControlSolutions[1] # ControlSolutions[2]
    /\ Len(models[1].conditions) >= 3

\* ------------------------------------------------------------------ C9
\* C9: no DoseSeries handed to the Model builder holds a Solution twice.
C9_NoDuplicateSolutions ==
    \A i \in 1..Len(models) :
        \A j, k \in 1..Len(models[i].conditions) :
            j # k => models[i].conditions[j] # models[i].conditions[k]

\* ----------------------------------------------------------------- C10
\* While a cocktail is prepended to from its own list, the iterator is never
\* past the end of the list: each step inserts one element and advances by
\* one, so the loop has no exit.
SelfControlNeverExhausted ==
    (/\ pc[Main] = "prepend"
     /\ ki <= Len(control_drugs)
     /\ control_drugs[ki] = drug_conditions[ci].cocktail)
    => si <= Len(drug_conditions[ci].conditions)

====
